---------------------------- MODULE Spec2Model ----------------------------
(***************************************************************************)
(* Model of the receipt validation and reward dispatch handler `validate`  *)
(* of the Unity IAP server (POST /engine/validate) together with its two   *)
(* provider verifiers, verifyAndroidReceipt and verifyiOSReceipt.          *)
(*                                                                         *)
(* Every request is one invocation of the async handler.  An action is the *)
(* code that runs between two awaits: the handler runs synchronously up to *)
(* the first network (or file) call, and each completion of an awaited     *)
(* call runs the continuation up to the next await or to the response.     *)
(* The provider services, the key file, the minting endpoint and the clock *)
(* are the environment; their answers are drawn from small sets.           *)
(***************************************************************************)
EXTENDS Integers, Sequences, FiniteSets, TLC

\* Number of requests in flight at the same time.
NumReqs == 2

Reqs == 1..NumReqs

(***************************************************************************)
(* JavaScript values                                                       *)
(***************************************************************************)

\* The value `undefined`; as a property key it is the string "undefined".
Undefined == "undefined"

\* A property that the JSON object does not have.
Absent == "<absent>"

(***************************************************************************)
(* Request bodies (ValidateRequest)                                        *)
(***************************************************************************)

\* Product identifiers a client may send: the catalog's product, a product
\* the catalog does not list, a name every JavaScript object inherits, and
\* no productID at all.
ProductIDs == {"100_tokens", "500_tokens", "toString", Undefined}

\* purchaseToken of receiptData: not a property, an empty string, a token.
PurchaseTokens == {Absent, "", "tok1"}

Addresses == {"0xABC", "0xDEF"}

\* The fields of receiptData the handler and the verifiers read.  shape
\* tells how much of the envelope exists: "noReceipt" (body.receipt is
\* undefined), "noReceiptData" (receipt.receiptData is undefined), "data".
MkBody(shape, token, pid, addr) ==
    [shape         |-> shape,
     purchaseToken |-> token,
     productID     |-> pid,
     toAddress     |-> addr,
     orderID       |-> "ord1",
     quantity      |-> 1,
     transactionID |-> "t1"]

NoBody == MkBody("none", Absent, Undefined, Undefined)

Bodies ==
    {MkBody("noReceipt", Absent, Undefined, "0xABC"),
     MkBody("noReceiptData", Absent, Undefined, "0xABC")}
    \cup {MkBody("data", t, p, a) : t \in PurchaseTokens, p \in ProductIDs, a \in Addresses}

(***************************************************************************)
(* Reward catalog                                                          *)
(***************************************************************************)

\* The own properties of the object literal REWARD_MAPPING.
REWARD_MAPPING ==
    [p \in {"100_tokens"} |->
        [type     |-> "object",
         contract |-> "0x33D1a021aFbE0CFB0AC7CcB7c5A247777b3e7c50",
         amount   |-> "100"]]

\* REWARD_MAPPING is a plain object literal, so a property read that finds
\* no own property continues to Object.prototype, whose members (toString,
\* constructor, valueOf, ...) are functions without contract or amount.
InheritedKeys == {"toString", "constructor", "valueOf", "hasOwnProperty"}

\* REWARD_MAPPING[productID]
LookupReward(pid) ==
    IF pid \in DOMAIN REWARD_MAPPING THEN REWARD_MAPPING[pid]
    ELSE IF pid \in InheritedKeys
         THEN [type |-> "function", contract |-> Undefined, amount |-> Undefined]
         ELSE [type |-> "undefined", contract |-> Undefined, amount |-> Undefined]

\* `!reward` is false exactly for values other than undefined here.
Truthy(v) == v.type # "undefined"

(***************************************************************************)
(* Receipt classification                                                  *)
(***************************************************************************)

\* parsedReq.receipt.receiptData.hasOwnProperty("purchaseToken")
hasOwnPurchaseToken(b) == b.purchaseToken # Absent

classify_Truthiness(b) == IF b.purchaseToken \notin {Absent, ""} THEN "google" ELSE "apple"

\* googlePlayReceipt is set when the property exists, appleReceipt otherwise.
classify(b) == IF hasOwnPurchaseToken(b) THEN "google" ELSE "apple"

(***************************************************************************)
(* Dates                                                                   *)
(***************************************************************************)

\* 5 * 60 * 1000 milliseconds
FiveMinutes == 5 * 60 * 1000

\* Date.now() at the verification instant (milliseconds).
Instants == {10 * FiveMinutes}

\* Ages of a purchase at the verification instant: 4m59s, 5m exactly, 5m01s.
Ages == {FiveMinutes - 1000, FiveMinutes, FiveMinutes + 1000}

\* A Date: its time value, or NaN (Invalid Date).
ValidDate(ms) == [nan |-> FALSE, ms |-> ms]
InvalidDate == [nan |-> TRUE, ms |-> 0]

\* new Date(v).  A number is the time value.  A string is parsed as a date
\* string (Date.parse): a string of decimal digits holding milliseconds
\* since the epoch is no date string and yields Invalid Date.
NewDate(v) ==
    IF v.type = "number" THEN ValidDate(v.ms) ELSE InvalidDate

\* a < b on two Dates: each is converted to its time value and a
\* comparison with NaN is false.
DateLess(a, b) == ~a.nan /\ ~b.nan /\ a.ms < b.ms


(***************************************************************************)
(* Environment: provider answers, minting endpoint answers                 *)
(***************************************************************************)

\* Message of the error a failed network call or file read throws.
FaultMessage == "Request failed"

Ok == "ok"

\* What androidPublisher.purchases.products.get resolves to (or throws).
\* purchaseTimeMillis is an int64 of the REST API: the googleapis client
\* types it as a string of digits; a stub may hand over a number.
MkAndroidResp(fault, state, type, ms, oid) ==
    [fault             |-> fault,
     purchaseState     |-> state,
     purchaseTimeMillis |-> [type |-> type, ms |-> ms],
     orderId           |-> oid]

NoAndroidResp == MkAndroidResp(FALSE, -1, "none", 0, Undefined)

AndroidFault == MkAndroidResp(TRUE, -1, "none", 0, Undefined)

AndroidResponses(now) ==
    {AndroidFault}
    \cup {MkAndroidResp(FALSE, s, t, now - a, o) :
            s \in {0, 1}, t \in {"number", "string"}, a \in Ages, o \in {"ord1", "ord2"}}

\* What client.getTransactionInfo resolves to (or throws).  signed tells
\* whether signedTransactionInfo is present; the other fields are the JSON
\* of its payload segment, whose purchaseDate is a number of milliseconds.
MkIosResp(fault, signed, pid, qty, ms) ==
    [fault      |-> fault,
     signed     |-> signed,
     productId  |-> pid,
     quantity   |-> qty,
     purchaseDate |-> [type |-> "number", ms |-> ms]]

NoIosResp == MkIosResp(FALSE, FALSE, Undefined, -1, -1)

IosFault == MkIosResp(TRUE, FALSE, Undefined, 0, 0)

IosNotFound == MkIosResp(FALSE, FALSE, Undefined, 0, 0)

IosResponses(now) ==
    {IosFault, IosNotFound}
    \cup {MkIosResp(FALSE, TRUE, p, q, now - a) :
            p \in {"100_tokens", "toString"}, q \in {1, 2}, a \in Ages}

\* What axios.post to the minting endpoint resolves to (or throws).
MkMintResp(fault, data) == [fault |-> fault, data |-> data]

NoMintResp == MkMintResp(FALSE, Undefined)

MintResponses == {MkMintResp(TRUE, Undefined), MkMintResp(FALSE, "queue-1"), MkMintResp(FALSE, "queue-2")}

(***************************************************************************)
(* Provider verifiers                                                      *)
(***************************************************************************)

\* The body of the try block of verifyAndroidReceipt once the provider has
\* answered: the message of the error thrown, or Ok.
verifyAndroidReceipt(receipt, resp, now) ==
    IF resp.fault THEN FaultMessage
    ELSE IF resp.purchaseState # 0 THEN "Invalid purchase state"
    ELSE IF DateLess(NewDate(resp.purchaseTimeMillis), ValidDate(now - FiveMinutes))
         THEN "Purchase time is too old"
    ELSE IF resp.orderId # receipt.orderID THEN "Invalid order ID"
    ELSE Ok

verifyiOSReceipt_QuantityFirst(receipt, resp, now) ==
    IF resp.fault THEN FaultMessage
    ELSE IF ~resp.signed THEN "Transaction not found"
    ELSE IF resp.quantity # receipt.quantity THEN "Invalid quantity"
    ELSE IF resp.productId # receipt.productID THEN "Invalid product ID"
    ELSE IF DateLess(NewDate(resp.purchaseDate), ValidDate(now - FiveMinutes))
         THEN "Purchase time is too old"
    ELSE Ok

\* The body of the try block of verifyiOSReceipt once the provider has
\* answered: the message of the error thrown, or Ok.
verifyiOSReceipt(receipt, resp, now) ==
    IF resp.fault THEN FaultMessage
    ELSE IF ~resp.signed THEN "Transaction not found"
    ELSE IF resp.productId # receipt.productID THEN "Invalid product ID"
    ELSE IF resp.quantity # receipt.quantity THEN "Invalid quantity"
    ELSE IF DateLess(NewDate(resp.purchaseDate), ValidDate(now - FiveMinutes))
         THEN "Purchase time is too old"
    ELSE Ok

(***************************************************************************)
(* State                                                                   *)
(***************************************************************************)

VARIABLES
    pc,           \* where each invocation of validate stands
    body,         \* req.body of each invocation
    verifier,     \* the verifier each invocation has entered
    androidCalls, \* purchases.products.get calls issued, per invocation
    iosCalls,     \* getTransactionInfo calls issued, per invocation
    androidResp,  \* the answer of the Google provider, per invocation
    iosResp,      \* the answer of the Apple provider, per invocation
    verifiedAt,   \* Date.now() read by the freshness check, per invocation
    verified,     \* outcome of the verifier: "pending", Ok or the message
    mintCalls,    \* the mint calls issued, per invocation, in order
    mintResp,     \* the answer of the minting endpoint, per invocation
    responses     \* the responses written to res, per invocation, in order

vars == <<pc, body, verifier, androidCalls, iosCalls, androidResp, iosResp,
          verifiedAt, verified, mintCalls, mintResp, responses>>

Init ==
    /\ pc = [r \in Reqs |-> "idle"]
    /\ body = [r \in Reqs |-> NoBody]
    /\ verifier = [r \in Reqs |-> "none"]
    /\ androidCalls = [r \in Reqs |-> 0]
    /\ iosCalls = [r \in Reqs |-> 0]
    /\ androidResp = [r \in Reqs |-> NoAndroidResp]
    /\ iosResp = [r \in Reqs |-> NoIosResp]
    /\ verifiedAt = [r \in Reqs |-> 0]
    /\ verified = [r \in Reqs |-> "pending"]
    /\ mintCalls = [r \in Reqs |-> <<>>]
    /\ mintResp = [r \in Reqs |-> NoMintResp]
    /\ responses = [r \in Reqs |-> <<>>]

(***************************************************************************)
(* The handler                                                             *)
(***************************************************************************)

\* res.status(status).json(payload), then the handler returns.
Respond(r, status, payload) ==
    /\ responses' = [responses EXCEPT ![r] = Append(@, [status |-> status, body |-> payload])]
    /\ pc' = [pc EXCEPT ![r] = "done"]

\* The mint call: the url carries reward.contract, the body toAddress and
\* reward.amount.
MintRequest(b, reward) ==
    [contract |-> reward.contract, toAddress |-> b.toAddress, amount |-> reward.amount]

afterVerify_NoReturn(r, result) ==
    /\ verified' = [verified EXCEPT ![r] = result]
    /\ IF result # Ok
       THEN /\ responses' = [responses EXCEPT ![r] =
                   Append(@, [status |-> 401, body |-> "Unable to validate receipt: " \o result])]
            /\ mintCalls' = [mintCalls EXCEPT ![r] =
                   Append(@, MintRequest(body[r], LookupReward(body[r].productID)))]
            /\ pc' = [pc EXCEPT ![r] = "awaitMint"]
       ELSE /\ mintCalls' = [mintCalls EXCEPT ![r] =
                   Append(@, MintRequest(body[r], LookupReward(body[r].productID)))]
            /\ pc' = [pc EXCEPT ![r] = "awaitMint"]
            /\ UNCHANGED responses

afterVerify_Deduplicated(r, result) ==
    /\ verified' = [verified EXCEPT ![r] = result]
    /\ IF result # Ok
       THEN /\ Respond(r, 401, "Unable to validate receipt: " \o result)
            /\ UNCHANGED mintCalls
       ELSE IF \E q \in Reqs \ {r} :
                  /\ body[q].transactionID = body[r].transactionID
                  /\ mintCalls[q] # <<>>
            THEN /\ Respond(r, 200, "duplicate")
                 /\ UNCHANGED mintCalls
            ELSE /\ mintCalls' = [mintCalls EXCEPT ![r] =
                        Append(@, MintRequest(body[r], LookupReward(body[r].productID)))]
                 /\ pc' = [pc EXCEPT ![r] = "awaitMint"]
                 /\ UNCHANGED responses

\* The rest of validate once the verifier has settled: the catch block of
\* the "Validate receipt" try answers 401 and returns; otherwise the mint
\* call is issued and awaited.
afterVerify(r, result) ==
    /\ verified' = [verified EXCEPT ![r] = result]
    /\ IF result # Ok
       THEN /\ Respond(r, 401, "Unable to validate receipt: " \o result)
            /\ UNCHANGED mintCalls
       ELSE /\ mintCalls' = [mintCalls EXCEPT ![r] =
                   Append(@, MintRequest(body[r], LookupReward(body[r].productID)))]
            /\ pc' = [pc EXCEPT ![r] = "awaitMint"]
            /\ UNCHANGED responses

\* A client presents one purchase, possibly several times at once (a
\* retry): the requests in flight carry the same body.
SamePurchase(b) == \A q \in Reqs : pc[q] # "idle" => body[q] = b

\* validate, from its entry to its first await (or to its return).
Validate(r, b) ==
    /\ pc[r] = "idle"
    /\ SamePurchase(b)
    /\ body' = [body EXCEPT ![r] = b]
    /\ IF b.shape # "data"
       THEN \* reading receiptData of undefined, or hasOwnProperty of
            \* undefined, throws a TypeError outside every try block: the
            \* promise of the handler is rejected and nothing is answered
            /\ pc' = [pc EXCEPT ![r] = "rejected"]
            /\ UNCHANGED <<verifier, androidCalls, responses>>
       ELSE IF ~Truthy(LookupReward(b.productID))
       THEN /\ Respond(r, 400, "Invalid product ID, could not find reward.")
            /\ UNCHANGED <<verifier, androidCalls>>
       ELSE IF classify(b) = "google"
       THEN /\ verifier' = [verifier EXCEPT ![r] = "verifyAndroidReceipt"]
            /\ androidCalls' = [androidCalls EXCEPT ![r] = @ + 1]
            /\ pc' = [pc EXCEPT ![r] = "awaitAndroid"]
            /\ UNCHANGED responses
       ELSE /\ verifier' = [verifier EXCEPT ![r] = "verifyiOSReceipt"]
            /\ pc' = [pc EXCEPT ![r] = "readKey"]
            /\ UNCHANGED <<androidCalls, responses>>
    /\ UNCHANGED <<iosCalls, androidResp, iosResp, verifiedAt, verified, mintCalls, mintResp>>

\* verifyiOSReceipt: readFile("subscription-key.p8") completes; the client
\* is built and getTransactionInfo is issued, or the read error is thrown.
ReadKey(r, ok) ==
    /\ pc[r] = "readKey"
    /\ IF ok
       THEN /\ iosCalls' = [iosCalls EXCEPT ![r] = @ + 1]
            /\ pc' = [pc EXCEPT ![r] = "awaitIos"]
            /\ UNCHANGED <<verified, mintCalls, responses>>
       ELSE /\ afterVerify(r, FaultMessage)
            /\ UNCHANGED iosCalls
    /\ UNCHANGED <<body, verifier, androidCalls, androidResp, iosResp, verifiedAt, mintResp>>

\* purchases.products.get completes: the checks of verifyAndroidReceipt,
\* then the rest of validate.
AndroidResponse(r, resp, now) ==
    /\ pc[r] = "awaitAndroid"
    /\ androidResp' = [androidResp EXCEPT ![r] = resp]
    /\ verifiedAt' = [verifiedAt EXCEPT ![r] = now]
    /\ afterVerify(r, verifyAndroidReceipt(body[r], resp, now))
    /\ UNCHANGED <<body, verifier, androidCalls, iosCalls, iosResp, mintResp>>

\* getTransactionInfo completes: the checks of verifyiOSReceipt, then the
\* rest of validate.
IosResponse(r, resp, now) ==
    /\ pc[r] = "awaitIos"
    /\ iosResp' = [iosResp EXCEPT ![r] = resp]
    /\ verifiedAt' = [verifiedAt EXCEPT ![r] = now]
    /\ afterVerify(r, verifyiOSReceipt(body[r], resp, now))
    /\ UNCHANGED <<body, verifier, androidCalls, iosCalls, androidResp, mintResp>>

afterMint_Retry(r, out) ==
    IF out.fault /\ Len(mintCalls[r]) < 2
    THEN /\ mintCalls' = [mintCalls EXCEPT ![r] = Append(@, @[1])]
         /\ UNCHANGED <<pc, responses>>
    ELSE IF out.fault
    THEN /\ Respond(r, 400, "Unable to sign payload.")
         /\ UNCHANGED mintCalls
    ELSE /\ Respond(r, 200, out.data)
         /\ UNCHANGED mintCalls

\* The "Approve mint request" try block once axios.post has settled:
\* res.json(response.data), or the catch block's 400.
afterMint(r, out) ==
    /\ IF out.fault
       THEN Respond(r, 400, "Unable to sign payload.")
       ELSE Respond(r, 200, out.data)
    /\ UNCHANGED mintCalls

\* axios.post to the minting endpoint completes.
MintResponse(r, out) ==
    /\ pc[r] = "awaitMint"
    /\ mintResp' = [mintResp EXCEPT ![r] = out]
    /\ afterMint(r, out)
    /\ UNCHANGED <<body, verifier, androidCalls, iosCalls, androidResp, iosResp,
                   verifiedAt, verified>>

Next ==
    \/ \E r \in Reqs, b \in Bodies : Validate(r, b)
    \/ \E r \in Reqs, ok \in BOOLEAN : ReadKey(r, ok)
    \/ \E r \in Reqs, now \in Instants : \E resp \in AndroidResponses(now) :
          AndroidResponse(r, resp, now)
    \/ \E r \in Reqs, now \in Instants : \E resp \in IosResponses(now) :
          IosResponse(r, resp, now)
    \/ \E r \in Reqs, out \in MintResponses : MintResponse(r, out)

Spec == Init /\ [][Next]_vars

(***************************************************************************)
(* Properties                                                              *)
(***************************************************************************)

Started(r) == pc[r] # "idle"

HasData(r) == body[r].shape = "data"

ProviderCalls(r) == androidCalls[r] + iosCalls[r]

\* Age of the purchase the provider reported, at the verification instant.
AndroidAge(r) == verifiedAt[r] - androidResp[r].purchaseTimeMillis.ms

IosAge(r) == verifiedAt[r] - iosResp[r].purchaseDate.ms

AndroidAnswered(r) == androidResp[r] # NoAndroidResp /\ ~androidResp[r].fault

IosAnswered(r) == iosResp[r] # NoIosResp /\ ~iosResp[r].fault

\* C1: a request whose productID has no entry in the reward catalog is
\* answered 400 "Invalid product ID, could not find reward." at once, with
\* no verifier entered, no provider call and no mint call, for Google
\* shaped and Apple shaped receipts alike.
C1_UnknownProductShortCircuits ==
    \A r \in Reqs :
        (Started(r) /\ HasData(r) /\ body[r].productID \notin DOMAIN REWARD_MAPPING)
        => /\ pc[r] = "done"
           /\ responses[r] = <<[status |-> 400,
                                body |-> "Invalid product ID, could not find reward."]>>
           /\ verifier[r] = "none"
           /\ ProviderCalls(r) = 0
           /\ mintCalls[r] = <<>>

\* C2: a mint call exists only for a request whose verifier has completed
\* successfully, and a request whose verifier failed, for whatever reason,
\* has ended with 401 "Unable to validate receipt: <reason>" and no mint
\* call.
C2_MintOnlyAfterVerification ==
    \A r \in Reqs :
        /\ mintCalls[r] # <<>>
           => /\ verified[r] = Ok
              /\ ProviderCalls(r) = 1
              /\ AndroidAnswered(r) \/ IosAnswered(r)
        /\ verified[r] \notin {"pending", Ok}
           => /\ pc[r] = "done"
              /\ responses[r] = <<[status |-> 401,
                                   body |-> "Unable to validate receipt: " \o verified[r]]>>
              /\ mintCalls[r] = <<>>

\* One request has been verified and has issued its mint call while another
\* has been refused by its verifier.
C2_Witness ==
    \E r, q \in Reqs :
        /\ mintCalls[r] # <<>> /\ verified[r] = Ok
        /\ verified[q] = "Invalid purchase state" /\ pc[q] = "done"

\* C3 (as stated): two requests carrying the same receipt that both pass
\* verification both issue a mint call and both return 200.
C3_BothReturn200 ==
    \A r, q \in Reqs :
        (/\ r # q
         /\ body[r].transactionID = body[q].transactionID
         /\ verified[r] = Ok /\ verified[q] = Ok
         /\ pc[r] = "done" /\ pc[q] = "done")
        => /\ Len(mintCalls[r]) = 1 /\ Len(mintCalls[q]) = 1
           /\ responses[r][1].status = 200 /\ responses[q][1].status = 200

\* C3 (amended): requests carrying the same receipt are not deduplicated.
\* Every request that passes verification issues its own mint call, whatever
\* the others have done, so the mint calls of one purchase are as many as
\* the verified requests presenting it; each such request returns 200 when
\* its own mint call succeeds and 400 when it fails.
C3_NoDeduplication ==
    \A r, q \in Reqs :
        (/\ r # q
         /\ body[r].transactionID = body[q].transactionID
         /\ verified[r] = Ok /\ verified[q] = Ok)
        => /\ Len(mintCalls[r]) = 1 /\ Len(mintCalls[q]) = 1
           /\ pc[r] = "done"
              => /\ Len(responses[r]) = 1
                 /\ responses[r][1].status = (IF mintResp[r].fault THEN 400 ELSE 200)

\* Two requests with the same transactionID have both minted and both
\* returned 200.
C3_Witness ==
    \E r, q \in Reqs :
        /\ r # q
        /\ body[r].transactionID = body[q].transactionID
        /\ body[r].purchaseToken = body[q].purchaseToken
        /\ Len(mintCalls[r]) = 1 /\ Len(mintCalls[q]) = 1
        /\ pc[r] = "done" /\ pc[q] = "done"
        /\ responses[r][1].status = 200 /\ responses[q][1].status = 200

\* C4: every invocation, whatever the body, ends with exactly one response
\* of status 200, 400 or 401, and no exception leaves the handler.
C4_AlwaysOneResponse ==
    \A r \in Reqs :
        /\ pc[r] # "rejected"
        /\ Len(responses[r]) <= 1
        /\ pc[r] = "done"
           => /\ Len(responses[r]) = 1
              /\ responses[r][1].status \in {200, 400, 401}

\* C5: the provider is chosen by the presence of the purchaseToken property
\* alone.  A receipt that has it enters verifyAndroidReceipt and never
\* verifyiOSReceipt, a receipt without it enters verifyiOSReceipt and never
\* verifyAndroidReceipt, and no request calls both providers.
C5_ClassifiedByPurchaseToken ==
    \A r \in Reqs :
        (Started(r) /\ HasData(r))
        => /\ ~(androidCalls[r] > 0 /\ iosCalls[r] > 0)
           /\ body[r].purchaseToken # Absent
              => /\ iosCalls[r] = 0
                 /\ verifier[r] =
                      (IF Truthy(LookupReward(body[r].productID))
                       THEN "verifyAndroidReceipt" ELSE "none")
                 /\ verifier[r] # "none" => androidCalls[r] = 1
           /\ body[r].purchaseToken = Absent
              => /\ androidCalls[r] = 0
                 /\ verifier[r] =
                      (IF Truthy(LookupReward(body[r].productID))
                       THEN "verifyiOSReceipt" ELSE "none")

\* A receipt whose purchaseToken is the empty string has been verified by
\* the Google verifier.
C5_Witness ==
    \E r \in Reqs :
        /\ body[r].purchaseToken = ""
        /\ verifier[r] = "verifyAndroidReceipt"
        /\ androidCalls[r] = 1
        /\ verified[r] = Ok

\* The outcome the Google checks have when applied in the order purchase
\* state, freshness, order ID to the facts the provider reported.
GoogleExpected(r) ==
    IF androidResp[r].purchaseState # 0 THEN "Invalid purchase state"
    ELSE IF AndroidAge(r) > FiveMinutes THEN "Purchase time is too old"
    ELSE IF androidResp[r].orderId # body[r].orderID THEN "Invalid order ID"
    ELSE Ok

\* C6: Google verification reports the first failing check in the order
\* purchase state, purchase freshness, order ID, and succeeds only when the
\* state is 0, the purchase is no older than five minutes and the order ID
\* is the claimed one.
C6_GoogleChecksInOrder ==
    \A r \in Reqs : AndroidAnswered(r) => verified[r] = GoogleExpected(r)

\* The outcome the Apple checks have when applied in the order product ID,
\* quantity, freshness to the decoded payload.
AppleExpected(r) ==
    IF ~iosResp[r].signed THEN "Transaction not found"
    ELSE IF iosResp[r].productId # body[r].productID THEN "Invalid product ID"
    ELSE IF iosResp[r].quantity # body[r].quantity THEN "Invalid quantity"
    ELSE IF IosAge(r) > FiveMinutes THEN "Purchase time is too old"
    ELSE Ok

\* C7: Apple verification fails with "Transaction not found" when the
\* provider returns no signed payload, and otherwise reports the first
\* failing check in the order product ID, quantity, purchase freshness; it
\* succeeds only when all of them pass.
C7_AppleChecksInOrder ==
    \A r \in Reqs : IosAnswered(r) => verified[r] = AppleExpected(r)

\* The decoded payload differs in product ID and in quantity and is stale,
\* and the product ID is the reason reported.
C7_Witness ==
    \E r \in Reqs :
        /\ IosAnswered(r) /\ iosResp[r].signed
        /\ iosResp[r].productId # body[r].productID
        /\ iosResp[r].quantity # body[r].quantity
        /\ IosAge(r) > FiveMinutes
        /\ verified[r] = "Invalid product ID"

\* C8: with every other check passing, both verifiers reject a purchase
\* older than five minutes at the verification instant as too old and
\* accept one that is not.
C8_FreshnessWindow ==
    \A r \in Reqs :
        /\ (/\ AndroidAnswered(r)
            /\ androidResp[r].purchaseState = 0
            /\ androidResp[r].orderId = body[r].orderID)
           => verified[r] = (IF AndroidAge(r) > FiveMinutes
                             THEN "Purchase time is too old" ELSE Ok)
        /\ (/\ IosAnswered(r) /\ iosResp[r].signed
            /\ iosResp[r].productId = body[r].productID
            /\ iosResp[r].quantity = body[r].quantity)
           => verified[r] = (IF IosAge(r) > FiveMinutes
                             THEN "Purchase time is too old" ELSE Ok)

\* C9: the mint call of a verified request carries the request's toAddress
\* and the contract and amount of the catalog reward of the claimed
\* productID, and when it succeeds the answer is 200 with the minting
\* endpoint's response body.
C9_MintCarriesCatalogReward ==
    \A r \in Reqs :
        /\ mintCalls[r] # <<>>
           => /\ body[r].productID \in DOMAIN REWARD_MAPPING
              /\ mintCalls[r] =
                   <<[contract  |-> REWARD_MAPPING[body[r].productID].contract,
                      toAddress |-> body[r].toAddress,
                      amount    |-> REWARD_MAPPING[body[r].productID].amount]>>
        /\ (pc[r] = "done" /\ mintCalls[r] # <<>> /\ ~mintResp[r].fault)
           => responses[r] = <<[status |-> 200, body |-> mintResp[r].data]>>

\* C10: a request makes at most one provider call and at most one mint
\* call; a fault of the provider call ends it with 401 after that one call,
\* and a fault of the mint call ends it with 400 "Unable to sign payload."
\* after one mint call and one provider call.
C10_NoRetry ==
    \A r \in Reqs :
        /\ ProviderCalls(r) <= 1
        /\ Len(mintCalls[r]) <= 1
        /\ (androidResp[r].fault \/ iosResp[r].fault)
           => /\ pc[r] = "done"
              /\ responses[r] = <<[status |-> 401,
                                   body |-> "Unable to validate receipt: " \o FaultMessage]>>
              /\ ProviderCalls(r) = 1
              /\ mintCalls[r] = <<>>
        /\ mintResp[r].fault
           => /\ pc[r] = "done"
              /\ responses[r] = <<[status |-> 400, body |-> "Unable to sign payload."]>>
              /\ Len(mintCalls[r]) = 1
              /\ ProviderCalls(r) = 1

\* One request has ended on a provider fault and another on a mint fault.
C10_Witness ==
    \E r, q \in Reqs :
        /\ androidResp[r].fault /\ pc[r] = "done"
        /\ mintResp[q].fault /\ pc[q] = "done"

=============================================================================
